---- MODULE Spec2Model ----
(***************************************************************************)
(* Model of the restaurant ETL pipeline of transform.py: DatabaseConnection *)
(* (connect, close), DataTransformer (load_data, perform_transformations,   *)
(* save_results, print_results) and the driver main.                        *)
(*                                                                          *)
(* Values: ids, dates, categories and names are integers; amounts are       *)
(* integer cents.  NULL stands for a SQL NULL / pandas missing value.       *)
(***************************************************************************)
EXTENDS Integers, Sequences, FiniteSets, TLC

VARIABLES
    src,          \* the source tables orders, order_items, menu_items
    tables,       \* the committed tables daily_revenue, top_selling_items
    txn,          \* the session's open transaction: its view of the two tables
    conn, cur,    \* db.conn and db.cur: "None", "open" or "closed"
    pc,           \* the statement of main that runs next
    exc,          \* the exception in flight in main
    data,         \* the value load_data returned
    results,      \* the value perform_transformations returned
    stages,       \* the calls main has made so far in this run, in order
    close_calls,  \* the number of calls of db.close() in this run
    outcome,      \* how main ended: "running", "returned" or "raised"
    saved,        \* save_results has committed in this run
    failed_at,    \* the statement of save_results that failed (0: none)
    pre_run,      \* the committed tables when this run started
    prev          \* the previous run: whether it saved, and its results

vars == <<src, tables, txn, conn, cur, pc, exc, data, results, stages,
          close_calls, outcome, saved, failed_at, pre_run, prev>>

(* ---------------------------- bounds ----------------------------------- *)
\* number of menu items of the source data (more than the cutoff of head)
NItems == 11
\* largest quantity of the additional line item
MaxQty == 2

(* --------------------------- constants --------------------------------- *)
\* .head(10)
TopN == 10
\* a missing value (SQL NULL, None / NaN in a DataFrame)
NULL == 0

(* ------------------------- source data --------------------------------- *)
\* the rows of table orders: the first n of two orders, the second dated d2
Orders(n, d2) ==
    { o \in { [order_id |-> 1, order_date |-> 1, total_amount |-> 3000],
              [order_id |-> 2, order_date |-> d2, total_amount |-> 1250] } :
        o.order_id <= n }

\* the rows of table menu_items; item nullItem has a NULL in column nullCol
MenuItems(nullItem, nullCol) ==
    { [item_id   |-> i,
       item_name |-> IF nullItem = i /\ nullCol = "item_name" THEN NULL ELSE 100 + i,
       category  |-> IF nullItem = i /\ nullCol = "category" THEN NULL
                     ELSE 1 + ((i \div 2) % 2)] : i \in 1..NItems }

\* the rows of table order_items: one line per menu item, and one more line
OrderItems(extra) ==
    [i \in 1..NItems |-> [order_id |-> 1 + (i % 2), item_id |-> i, quantity |-> i]]
        \o <<extra>>

\* the additional line, in the first order: of any item, or of an item that
\* is not on the menu
ExtraLines ==
    { [order_id |-> 1, item_id |-> i, quantity |-> q] :
        i \in 1..(NItems + 1), q \in 1..MaxQty }

Sources ==
    { [orders |-> Orders(n, d2), order_items |-> OrderItems(x),
       menu_items |-> MenuItems(ni, nc)] :
        n \in 0..2, d2 \in 1..2, x \in ExtraLines,
        ni \in {0, 2}, nc \in {"item_name", "category"} }

\* a table: absent, or present with a set of rows
Absent == [exists |-> FALSE, rows |-> {}]
Table(R) == [exists |-> TRUE, rows |-> R]

\* what the two target tables hold before the first run: nothing was ever
\* created, or an earlier run over other source data left its rows
Priors ==
    { [daily_revenue |-> Absent, top_selling_items |-> Absent],
      [daily_revenue |->
          Table({ [order_date |-> 1, category |-> 1, total_amount |-> 100],
                  [order_date |-> 9, category |-> 2, total_amount |-> 700] }),
       top_selling_items |->
          Table({ [item_id |-> 1, item_name |-> 101, total_quantity |-> 40],
                  [item_id |-> 99, item_name |-> 199, total_quantity |-> 5] })] }

(* ------------------ perform_transformations ---------------------------- *)
\* one joined row: order o, line k of order_items, menu item m
JoinedRow(o, k, li, m) ==
    [line |-> k, order_id |-> o.order_id, order_date |-> o.order_date,
     total_amount |-> o.total_amount, item_id |-> li.item_id,
     quantity |-> li.quantity, item_name |-> m.item_name, category |-> m.category]

\* orders.merge(order_items, on='order_id').merge(menu_items, on='item_id')
\* with a left join on item_id: an unmatched line is kept, with missing values
JoinedLeft(d) ==
    { JoinedRow(t[1], t[2], d.order_items[t[2]], t[3]) :
        t \in { u \in d.orders \X (DOMAIN d.order_items) \X d.menu_items :
                  /\ u[1].order_id = d.order_items[u[2]].order_id
                  /\ u[3].item_id = d.order_items[u[2]].item_id } }
    \cup
    { JoinedRow(t[1], t[2], d.order_items[t[2]],
                [item_name |-> NULL, category |-> NULL]) :
        t \in { u \in d.orders \X (DOMAIN d.order_items) :
                  /\ u[1].order_id = d.order_items[u[2]].order_id
                  /\ \A m \in d.menu_items :
                        m.item_id # d.order_items[u[2]].item_id } }

\* orders.merge(order_items, on='order_id').merge(menu_items, on='item_id')
Joined(d) ==
    { JoinedRow(t[1], t[2], d.order_items[t[2]], t[3]) :
        t \in { u \in d.orders \X (DOMAIN d.order_items) \X d.menu_items :
                  /\ u[1].order_id = d.order_items[u[2]].order_id
                  /\ u[3].item_id = d.order_items[u[2]].item_id } }

\* lexicographic order of the group keys (groupby sorts the groups by key)
KeyLeq(a, b) == a[1] < b[1] \/ (a[1] = b[1] /\ a[2] <= b[2])

RECURSIVE SortedKeys(_)
SortedKeys(K) ==
    IF K = {} THEN <<>>
    ELSE LET m == CHOOSE x \in K : \A y \in K : KeyLeq(x, y)
         IN  <<m>> \o SortedKeys(K \ {m})

\* .agg({col: 'sum'}) over the rows R
RECURSIVE SumOf(_, _)
SumOf(R, col) ==
    IF R = {} THEN 0
    ELSE LET r == CHOOSE x \in R : TRUE IN r[col] + SumOf(R \ {r}, col)

\* the keys groupby(cols) makes groups of: rows with a missing key are dropped
GroupKeys(J, c1, c2) ==
    { <<r[c1], r[c2]>> : r \in { x \in J : x[c1] # NULL /\ x[c2] # NULL } }

\* joined_df.groupby(['order_date','category']).agg({'total_amount':'sum'}).reset_index()
DailyRevenue(J) ==
    LET ks == SortedKeys(GroupKeys(J, "order_date", "category"))
    IN  [i \in 1..Len(ks) |->
            [order_date |-> ks[i][1], category |-> ks[i][2],
             total_amount |->
                SumOf({r \in J : r.order_date = ks[i][1] /\ r.category = ks[i][2]},
                      "total_amount")]]

\* joined_df.groupby(['item_id','item_name']).agg({'quantity':'sum'})
GroupedItems(J) ==
    LET ks == SortedKeys(GroupKeys(J, "item_id", "item_name"))
    IN  [i \in 1..Len(ks) |->
            [item_id |-> ks[i][1], item_name |-> ks[i][2],
             quantity |->
                SumOf({r \in J : r.item_id = ks[i][1] /\ r.item_name = ks[i][2]},
                      "quantity")]]

\* the orders in which the positions P of g can be listed
RECURSIVE Perms(_)
Perms(P) ==
    IF P = {} THEN {<<>>}
    ELSE UNION { { <<p>> \o s : s \in Perms(P \ {p}) } : p \in P }

\* .sort_values('quantity', ascending=False): the default sort kind is not
\* stable, so rows of equal quantity come out in any order
RECURSIVE DescOrders(_, _)
DescOrders(g, P) ==
    IF P = {} THEN {<<>>}
    ELSE LET top == { p \in P : \A q \in P : g[q].quantity <= g[p].quantity }
         IN  UNION { { a \o b : b \in DescOrders(g, P \ top) } : a \in Perms(top) }

SortValues(g) == { [i \in 1..Len(o) |-> g[o[i]]] : o \in DescOrders(g, DOMAIN g) }

\* .head(n)
Head_(s, n) == IF Len(s) <= n THEN s ELSE SubSeq(s, 1, n)

\* the values perform_transformations can return for the loaded data d
Transformations(d) ==
    LET J == Joined(d)
    IN  { [ready |-> TRUE, joined |-> J, daily_revenue |-> DailyRevenue(J),
           top_items |-> Head_(s, TopN)] : s \in SortValues(GroupedItems(J)) }

(* --------------------------- the session -------------------------------- *)
NoTxn == [open |-> FALSE, w |-> [daily_revenue |-> Absent, top_selling_items |-> Absent]]
NoData == [loaded |-> FALSE, orders |-> {}, order_items |-> <<>>, menu_items |-> {}]
NoResults == [ready |-> FALSE, joined |-> {}, daily_revenue |-> <<>>, top_items |-> <<>>]

\* psycopg2.Error, and any other exception
Kinds == {"Error", "Exception"}

\* the primary key of a row of a target table
PKey(t, row) ==
    IF t = "daily_revenue" THEN <<row.order_date, row.category>> ELSE <<row.item_id>>

\* CREATE TABLE IF NOT EXISTS
CreateIfNotExists(T) == IF T.exists THEN T ELSE Table({})

\* TRUNCATE TABLE that leaves the rows in place
TruncateKeeps(T) == T

\* TRUNCATE TABLE
Truncate(T) == Table({})

\* the statements save_results executes before the commit, in order
SaveSteps(res) ==
    << [op |-> "create", table |-> "daily_revenue", row |-> <<>>],
       [op |-> "create", table |-> "top_selling_items", row |-> <<>>],
       [op |-> "truncate", table |-> "daily_revenue", row |-> <<>>],
       [op |-> "truncate", table |-> "top_selling_items", row |-> <<>>] >>
    \o [i \in 1..Len(res.daily_revenue) |->
          [op |-> "insert", table |-> "daily_revenue", row |-> res.daily_revenue[i]]]
    \o [i \in 1..Len(res.top_items) |->
          [op |-> "insert", table |-> "top_selling_items",
           row |-> [item_id |-> res.top_items[i].item_id,
                    item_name |-> res.top_items[i].item_name,
                    total_quantity |-> res.top_items[i].quantity]]]

\* a merge instead of a full refresh: nothing is truncated, and a row whose
\* key is already there is added to the stored one
ExecStepMerge(w, st) ==
    LET T == w[st.table]
        same == { r \in T.rows : PKey(st.table, r) = PKey(st.table, st.row) }
        add(r) == IF st.table = "daily_revenue"
                  THEN [r EXCEPT !.total_amount = @ + st.row.total_amount]
                  ELSE [r EXCEPT !.total_quantity = @ + st.row.total_quantity]
    IN  CASE st.op = "create" ->
               [w |-> [w EXCEPT ![st.table] = CreateIfNotExists(T)], err |-> "none"]
          [] st.op = "truncate" -> [w |-> w, err |-> "none"]
          [] OTHER ->
               [w |-> [w EXCEPT ![st.table] =
                          Table((T.rows \ same) \cup
                                (IF same = {} THEN {st.row} ELSE {add(r) : r \in same}))],
                err |-> "none"]

\* cur.execute of one statement in the transaction's view w of the tables;
\* a statement the engine rejects raises psycopg2.Error
ExecStep(w, st) ==
    LET T == w[st.table]
    IN  CASE st.op = "create" ->
               [w |-> [w EXCEPT ![st.table] = CreateIfNotExists(T)], err |-> "none"]
          [] st.op = "truncate" ->
               IF T.exists
               THEN [w |-> [w EXCEPT ![st.table] = Truncate(T)], err |-> "none"]
               ELSE [w |-> w, err |-> "Error"]
          [] OTHER ->
               IF /\ T.exists
                  /\ \A j \in DOMAIN PKey(st.table, st.row) :
                        PKey(st.table, st.row)[j] # NULL
                  /\ \A r \in T.rows : PKey(st.table, r) # PKey(st.table, st.row)
               THEN [w |-> [w EXCEPT ![st.table] = Table(T.rows \cup {st.row})],
                     err |-> "none"]
               ELSE [w |-> w, err |-> "Error"]

\* the statements from the i-th on; statement failAt fails with an exception
\* of kind k (the session breaks, a value cannot be sent)
RECURSIVE Exec(_, _, _, _, _)
Exec(w, steps, i, failAt, k) ==
    IF i > Len(steps) THEN [w |-> w, err |-> "none", at |-> 0]
    ELSE IF i = failAt THEN [w |-> w, err |-> k, at |-> i]
    ELSE LET r == ExecStep(w, steps[i])
         IN  IF r.err # "none" THEN [w |-> r.w, err |-> r.err, at |-> i]
             ELSE Exec(r.w, steps, i + 1, failAt, k)

\* conn.commit(): the transaction's view becomes the committed tables
commit(db) == [tables |-> db.txn.w, txn |-> NoTxn]

\* conn.rollback() that commits
rollback_commits(db) == commit(db)

\* conn.rollback(): the transaction's view is discarded
rollback(db) == [tables |-> db.tables, txn |-> NoTxn]

\* DataTransformer.save_results, with statement failAt failing with kind k
\* (Len(steps) + 1 is the commit; 0 is no failure)
save_results(db, res, failAt, k) ==
    LET steps == SaveSteps(res)
        r == Exec(db.txn.w, steps, 1, failAt, k)
        after == [tables |-> db.tables, txn |-> [open |-> TRUE, w |-> r.w]]
    IN  IF r.err = "none" /\ failAt # Len(steps) + 1
        THEN [db |-> commit(after), err |-> "none", at |-> 0]
        ELSE LET e == IF r.err = "none" THEN k ELSE r.err
                 at == IF r.err = "none" THEN Len(steps) + 1 ELSE r.at
             IN  IF e = "Error"
                 THEN [db |-> rollback(after), err |-> e, at |-> at]
                 ELSE [db |-> after, err |-> e, at |-> at]

\* db.close() that forgets the session
close_cursor_only(c) ==
    [conn |-> c.conn, cur |-> IF c.cur = "open" THEN "closed" ELSE c.cur]

\* db.close() that closes the session only under the cursor's test
close_nested(c) ==
    IF c.cur = "open"
    THEN [conn |-> IF c.conn = "open" THEN "closed" ELSE c.conn, cur |-> "closed"]
    ELSE c

\* DatabaseConnection.close
close(c) ==
    [conn |-> IF c.conn = "open" THEN "closed" ELSE c.conn,
     cur  |-> IF c.cur = "open" THEN "closed" ELSE c.cur]

\* DatabaseConnection.connect: it succeeds, or psycopg2.connect raises, or
\* conn.cursor() raises
connect(how) ==
    CASE how = "ok"         -> [conn |-> "open", cur |-> "open"]
      [] how = "no_cursor"  -> [conn |-> "open", cur |-> "None"]
      [] OTHER              -> [conn |-> "None", cur |-> "None"]

(* ------------------------------ main ------------------------------------ *)
StageOrder == <<"connect", "load", "transform", "save", "print">>

Successor(stage) ==
    IF stage = "print" THEN "close"
    ELSE StageOrder[1 + CHOOSE i \in 1..4 : StageOrder[i] = stage]

\* a try block that goes on with the next statement after an exception
AfterStageContinues(stage, e) == Successor(stage)

\* the try block of main: the statement after `stage` when it ended with e
AfterStage(stage, e) == IF e = "none" THEN Successor(stage) ELSE "close"

\* except Exception: log, raise
MainOutcome(e) == IF e = "none" THEN "returned" ELSE "raised"

Init ==
    /\ src \in Sources
    /\ tables \in Priors
    /\ txn = NoTxn
    /\ conn = "None" /\ cur = "None"
    /\ pc = "connect"
    /\ exc = "none"
    /\ data = NoData
    /\ results = NoResults
    /\ stages = <<>>
    /\ close_calls = 0
    /\ outcome = "running"
    /\ saved = FALSE
    /\ failed_at = 0
    /\ pre_run = tables
    /\ prev = [saved |-> FALSE, results |-> NoResults]

\* db.connect()
Connect ==
    /\ pc = "connect"
    /\ \E how \in {"ok", "no_session", "no_cursor"} :
         LET e == IF how = "ok" THEN "none" ELSE "Error"
         IN  /\ conn' = connect(how).conn
             /\ cur' = connect(how).cur
             /\ exc' = e
             /\ pc' = AfterStage("connect", e)
    /\ stages' = Append(stages, "connect")
    /\ UNCHANGED <<src, tables, txn, data, results, close_calls, outcome, saved,
                   failed_at, pre_run, prev>>

\* transformer.load_data(): the three tables are read in the session's
\* transaction, or a query fails
LoadData ==
    /\ pc = "load"
    /\ \E e \in {"none", "Exception"} :
         /\ data' = IF e = "none"
                    THEN [loaded |-> TRUE, orders |-> src.orders,
                          order_items |-> src.order_items,
                          menu_items |-> src.menu_items]
                    ELSE data
         /\ exc' = e
         /\ pc' = AfterStage("load", e)
    /\ txn' = IF conn = "open" THEN [open |-> TRUE, w |-> tables] ELSE txn
    /\ stages' = Append(stages, "load")
    /\ UNCHANGED <<src, tables, conn, cur, results, close_calls, outcome, saved,
                   failed_at, pre_run, prev>>

\* transformer.perform_transformations(data)
PerformTransformations ==
    /\ pc = "transform"
    /\ \/ /\ results' \in Transformations(data)
          /\ exc' = "none"
          /\ pc' = AfterStage("transform", "none")
       \/ /\ exc' = "Exception"
          /\ pc' = AfterStage("transform", "Exception")
          /\ UNCHANGED results
    /\ stages' = Append(stages, "transform")
    /\ UNCHANGED <<src, tables, txn, conn, cur, data, close_calls, outcome, saved,
                   failed_at, pre_run, prev>>

\* transformer.save_results(results)
SaveResults ==
    /\ pc = "save"
    /\ \E failAt \in 0..(Len(SaveSteps(results)) + 1), k \in Kinds :
         LET r == save_results([tables |-> tables, txn |-> txn], results, failAt, k)
         IN  /\ tables' = r.db.tables
             /\ txn' = r.db.txn
             /\ saved' = (r.err = "none")
             /\ failed_at' = r.at
             /\ exc' = r.err
             /\ pc' = AfterStage("save", r.err)
    /\ stages' = Append(stages, "save")
    /\ UNCHANGED <<src, conn, cur, data, results, close_calls, outcome, pre_run, prev>>

\* transformer.print_results(results)
PrintResults ==
    /\ pc = "print"
    /\ \E e \in {"none", "Exception"} :
         /\ exc' = e
         /\ pc' = AfterStage("print", e)
    /\ stages' = Append(stages, "print")
    /\ UNCHANGED <<src, tables, txn, conn, cur, data, results, close_calls, outcome,
                   saved, failed_at, pre_run, prev>>

\* finally: db.close(); then main returns or the exception leaves main.
\* Closing the session discards a transaction that is still open.
Close ==
    /\ pc = "close"
    /\ conn' = close([conn |-> conn, cur |-> cur]).conn
    /\ cur' = close([conn |-> conn, cur |-> cur]).cur
    /\ txn' = IF conn' = "open" THEN txn ELSE NoTxn
    /\ close_calls' = close_calls + 1
    /\ stages' = Append(stages, "close")
    /\ outcome' = MainOutcome(exc)
    /\ pc' = "done"
    /\ UNCHANGED <<src, tables, exc, data, results, saved, failed_at, pre_run, prev>>

\* the job is started again: a new process runs main over the same source
Restart ==
    /\ pc = "done"
    /\ prev' = [saved |-> saved, results |-> IF saved THEN results ELSE NoResults]
    /\ pre_run' = tables
    /\ txn' = NoTxn
    /\ conn' = "None" /\ cur' = "None"
    /\ pc' = "connect"
    /\ exc' = "none"
    /\ data' = NoData
    /\ results' = NoResults
    /\ stages' = <<>>
    /\ close_calls' = 0
    /\ outcome' = "running"
    /\ saved' = FALSE
    /\ failed_at' = 0
    /\ UNCHANGED <<src, tables>>

Next ==
    \/ Connect
    \/ LoadData
    \/ PerformTransformations
    \/ SaveResults
    \/ PrintResults
    \/ Close
    \/ Restart

Spec == Init /\ [][Next]_vars

(* ------------------------------ claims ---------------------------------- *)
Range(s) == { s[i] : i \in DOMAIN s }

\* the rows save_results inserts into top_selling_items for the rows t
StoredItems(t) ==
    { [item_id |-> t[i].item_id, item_name |-> t[i].item_name,
       total_quantity |-> t[i].quantity] : i \in DOMAIN t }

\* the sum of the values of a function
RECURSIVE SumFn(_)
SumFn(f) ==
    IF DOMAIN f = {} THEN 0
    ELSE LET k == CHOOSE x \in DOMAIN f : TRUE
         IN  f[k] + SumFn([x \in DOMAIN f \ {k} |-> f[x]])

\* line k of order_items has an order and a menu item
HasOrder(d, k) == \E o \in d.orders : o.order_id = d.order_items[k].order_id
HasItem(d, k) == \E m \in d.menu_items : m.item_id = d.order_items[k].item_id
OrderOfLine(d, k) == CHOOSE o \in d.orders : o.order_id = d.order_items[k].order_id
ItemOfLine(d, k) == CHOOSE m \in d.menu_items : m.item_id = d.order_items[k].item_id
MatchedLines(d) == { k \in DOMAIN d.order_items : HasOrder(d, k) /\ HasItem(d, k) }

\* the statements of save_results: 4, then the inserts of the two aggregates
FirstItemInsert == 4 + Len(results.daily_revenue) + 1
LastItemInsert == 4 + Len(results.daily_revenue) + Len(results.top_items)

\* C1: when a statement of save_results fails (a create, a truncate, an insert
\* of either aggregate, the commit), the two tables hold what they held before
\* the run, no transaction with partial rows stays open after the run, and
\* main raises.
C1_FailedSaveKeepsTables ==
    failed_at # 0 =>
        /\ tables = pre_run
        /\ ~saved
        /\ exc # "none"
        /\ pc = "done" => (outcome = "raised" /\ ~txn.open)

\* an insert of the second aggregate, after its first row, failed in a run
\* that found rows of an earlier run in both tables
C1_Witness ==
    /\ pc = "done"
    /\ failed_at > FirstItemInsert /\ failed_at <= LastItemInsert
    /\ exc = "Error"
    /\ pre_run.daily_revenue.rows # {}
    /\ pre_run.top_selling_items.rows # {}
    /\ tables = pre_run

\* C2: in every execution of main, db.close() runs exactly once, after the
\* last stage that ran, and no session or cursor is open when main ends.
C2_ClosedExactlyOnce ==
    /\ pc # "done" => close_calls = 0
    /\ pc = "done" =>
          /\ close_calls = 1
          /\ stages[Len(stages)] = "close"
          /\ conn # "open" /\ cur # "open"

\* main ended after perform_transformations raised, with the session closed
C2_Witness ==
    /\ pc = "done"
    /\ exc = "Exception"
    /\ stages = <<"connect", "load", "transform", "close">>
    /\ conn = "closed" /\ close_calls = 1

\* C3: the stages run in the order connect, load, transform, save, print, each
\* only after the one before ended without an exception; none of load,
\* transform, save, print runs without a connected session; after a stage
\* raises only close runs, and main raises.
C3_StrictStageOrder ==
    /\ \E n \in 0..5 :
          \/ stages = SubSeq(StageOrder, 1, n)
          \/ stages = SubSeq(StageOrder, 1, n) \o <<"close">>
    /\ exc # "none" => pc \in {"close", "done"}
    /\ pc \in {"load", "transform", "save", "print"} => (conn = "open" /\ cur = "open")
    /\ pc = "done" => (outcome = "raised" <=> exc # "none")
    /\ pc # "done" => outcome = "running"

\* load_data raised: transform, save and print did not run, and main raised
C3_Witness ==
    /\ pc = "done"
    /\ stages = <<"connect", "load", "close">>
    /\ exc = "Exception"
    /\ outcome = "raised"

\* C4: daily_revenue has exactly one row for every (order_date, category)
\* pair of the joined data, and the row's total_amount is the sum of
\* total_amount over the joined rows of that pair.
C4_DailyRevenuePerPair ==
    results.ready =>
        LET J == results.joined
            dr == results.daily_revenue
        IN  /\ { <<dr[i].order_date, dr[i].category>> : i \in DOMAIN dr }
                 = { <<r.order_date, r.category>> : r \in J }
            /\ \A i, j \in DOMAIN dr :
                  (dr[i].order_date = dr[j].order_date /\ dr[i].category = dr[j].category)
                     => i = j
            /\ \A i \in DOMAIN dr :
                  dr[i].total_amount =
                     SumOf({ r \in J : r.order_date = dr[i].order_date
                                        /\ r.category = dr[i].category }, "total_amount")

\* C5: top_items has at most 10 rows, fewer only if the joined data has fewer
\* distinct items; the rows are in descending order of quantity; each row's
\* quantity is the sum of quantity over the joined rows of its item_id; and no
\* item left out has a larger sum than an item kept.
C5_TopTenItems ==
    results.ready =>
        LET J == results.joined
            t == results.top_items
            items == { r.item_id : r \in J }
            Q(x) == SumOf({ r \in J : r.item_id = x }, "quantity")
            kept == { t[i].item_id : i \in DOMAIN t }
        IN  /\ Len(t) <= TopN
            /\ Len(t) = IF Cardinality(items) < TopN THEN Cardinality(items) ELSE TopN
            /\ \A i \in DOMAIN t : i < Len(t) => t[i].quantity >= t[i + 1].quantity
            /\ \A i \in DOMAIN t : t[i].quantity = Q(t[i].item_id)
            /\ \A x \in items \ kept : \A i \in DOMAIN t : Q(x) <= t[i].quantity

\* C6: the joined data holds exactly the lines of order_items that have an
\* order and a menu item; a line without one of them adds to no row of
\* daily_revenue and to no row of top_items.
C6_InnerJoinDropsUnmatched ==
    results.ready =>
        LET J == results.joined
            M == MatchedLines(data)
            dr == results.daily_revenue
            t == results.top_items
        IN  /\ { r.line : r \in J } = M
            /\ \A i \in DOMAIN dr :
                  dr[i].total_amount =
                     SumFn([k \in { x \in M :
                                      /\ OrderOfLine(data, x).order_date = dr[i].order_date
                                      /\ ItemOfLine(data, x).category = dr[i].category }
                               |-> OrderOfLine(data, k).total_amount])
            /\ \A i \in DOMAIN t :
                  t[i].quantity =
                     SumFn([k \in { x \in M : data.order_items[x].item_id = t[i].item_id }
                               |-> data.order_items[k].quantity])

\* a line of an item that is not on the menu, and a line of an order that is
\* not in orders, were dropped from a join that kept other lines
C6_Witness ==
    /\ results.ready
    /\ results.joined # {}
    /\ \E k \in DOMAIN data.order_items : HasOrder(data, k) /\ ~HasItem(data, k)
    /\ \E k \in DOMAIN data.order_items : ~HasOrder(data, k) /\ HasItem(data, k)

\* C7: when save_results commits in two runs in succession with the same
\* daily_revenue and top_items, the tables after the second run are the
\* tables after the first.
C7_SaveTwiceSameAsOnce ==
    ( /\ saved
      /\ prev.saved
      /\ prev.results.daily_revenue = results.daily_revenue
      /\ prev.results.top_items = results.top_items )
        => tables = pre_run

\* the second of two runs that both saved the same non-empty aggregates
C7_Witness ==
    /\ saved /\ prev.saved
    /\ prev.results.daily_revenue = results.daily_revenue
    /\ prev.results.top_items = results.top_items
    /\ Len(results.daily_revenue) > 1
    /\ Len(results.top_items) = TopN

\* C8: after save_results commits, whatever the tables held before (absent
\* included), daily_revenue holds exactly the rows of results['daily_revenue']
\* and top_selling_items those of results['top_items'].
C8_FullRefresh ==
    saved =>
        /\ tables.daily_revenue = Table(Range(results.daily_revenue))
        /\ tables.top_selling_items = Table(StoredItems(results.top_items))

\* a commit over tables that held rows of an earlier run, none of which is a
\* row of the new aggregates
C8_Witness ==
    /\ saved
    /\ pre_run.daily_revenue.rows # {}
    /\ pre_run.daily_revenue.rows \cap Range(results.daily_revenue) = {}
    /\ pre_run.top_selling_items.rows \cap StoredItems(results.top_items) = {}
    /\ results.daily_revenue # <<>>
    /\ Len(results.top_items) = TopN

\* C9: close() does nothing and raises nothing when conn and cur are unset,
\* closes the session when only the session was opened, and closes cursor and
\* session when connect succeeded.
C9_CloseSafeInEveryState ==
    [][ pc = "close" =>
          /\ pc' = "done" /\ exc' = exc
          /\ (conn = "None" /\ cur = "None") => (conn' = "None" /\ cur' = "None")
          /\ (conn = "open" /\ cur = "None") => (conn' = "closed" /\ cur' = "None")
          /\ (conn = "open" /\ cur = "open") => (conn' = "closed" /\ cur' = "closed")
      ]_vars

\* close ran after a connect that opened the session and no cursor
C9_Witness ==
    /\ pc = "done"
    /\ stages = <<"connect", "close">>
    /\ conn = "closed" /\ cur = "None"

\* a stable sort in descending order of quantity: rows of equal quantity stay
\* in the order of the grouped data
RECURSIVE StableDesc(_, _)
StableDesc(g, P) ==
    IF P = {} THEN <<>>
    ELSE LET p == CHOOSE x \in P : \A y \in P :
                     \/ g[y].quantity < g[x].quantity
                     \/ (g[y].quantity = g[x].quantity /\ x <= y)
         IN  <<g[p]>> \o StableDesc(g, P \ {p})

\* C10: rows of top_items of equal quantity are in the order of the grouped
\* data, and of rows tied at the cutoff the earlier ones are kept.
C10_StableTies ==
    results.ready =>
        results.top_items =
            Head_(StableDesc(GroupedItems(results.joined),
                             DOMAIN GroupedItems(results.joined)), TopN)

====
